---------------------------- MODULE Spec2Model ----------------------------
(***************************************************************************)
(* A state-machine model of the core runtime of the faust worker:          *)
(*                                                                         *)
(*   - Attachments   (src/faust/app/_attached.py)                          *)
(*   - TableManager  (src/faust/tables/manager.py)                         *)
(*   - TopicManager  (src/faust/topics.py)                                 *)
(*                                                                         *)
(* Every coroutine is cut at its suspension points (each `await` of a      *)
(* broker, producer, table or reader call): one action is the code that    *)
(* runs between two suspension points on the single-threaded event loop.   *)
(* The three subsystems share no state, so each has a specification of its *)
(* own (SpecAttachments, SpecTables, SpecTopics); Spec is their            *)
(* interleaving.                                                           *)
(***************************************************************************)
EXTENDS Integers, Sequences, FiniteSets, TLC

(***************************************************************************)
(* Bounds of the model.                                                    *)
(***************************************************************************)
\* FutureMessages created by put.
MaxFm == 2
\* Invocations of Attachments.commit.
MaxCommits == 2
\* Largest source offset of an attachment.
MaxSrcOffset == 1
\* Invocations of TableManager.on_partitions_assigned.
MaxCycles == 2
\* Largest changelog offset a table or a reader reports.
MaxOffset == 1
\* Messages the consumer hands to TopicManager.on_message.
MaxMsgs == 2
\* Invocations of TopicManager.add and TopicManager.discard that flag a change.
MaxChanges == 2
\* Successive calls of Topic.derive, each on the result of the one before.
MaxDerives == 2
\* Invocations of Topic.maybe_declare.
MaxDeclares == 3
\* Invocations of Topic.__aiter__.
MaxIters == 1

None == "None"

VARIABLES
    \* ---- Attachments ----
    _pending,        \* _pending[tp][offset]: the list of FutureMessages, <<>> when the key is absent
    nextFm,          \* the id the next FutureMessage gets
    fmSource,        \* fmSource[fm]: the <<tp, offset>> put enqueued fm at, <<>> before (history)
    handed,          \* handed[fm]: how many times fm was handed to publish_message (history)
    commits,         \* the commit coroutines, in order of invocation
    revokedPending,  \* the FutureMessages that were pending for a TP when it was revoked (history)
    lastMaybePut,    \* the arguments and the outcome of the last maybe_put call (history)
    \* ---- TableManager ----
    data,                \* self.data: the names of the registered tables
    lateAdd,             \* how the last add(table) made after an on_partitions_assigned ended (history)
    _channels,           \* the tables that have a changelog channel
    _changelogs,         \* the keys of _changelogs: the changelog topic names
    _table_offsets,      \* _table_offsets[tp], -1 when tp is absent
    _standbys,           \* table -> StandbyReader
    _revivers,           \* None, or the list of ChangelogReaders
    _ongoing_recovery,   \* None, or "task": the handle of the recovery task
    _recovery_started,   \* the latch
    recovery_completed,  \* the latch
    _stopped,            \* Service._stopped
    rec,                 \* the recovery task: its position and its locals
    hdl,                 \* the handler running (on_partitions_revoked or on_stop) and its position
    rebalance,           \* the consumer's last rebalance callback, and the number of assignments
    consumer,            \* the live consumer: its assignment and its paused partitions
    observed,            \* observed[tp]: the largest persisted or reader offset folded so far (history)
    cycleLog,            \* what the current assignment cycle has done (history)
    \* ---- TopicManager ----
    _topics,                \* the subscriber set: the registered channels
    _topicmap,              \* topic name -> set of channels, as last computed
    _pending_tasks,         \* the queue of delivery units <<message, channel>>
    _subscription_changed,  \* None, or the Event: "clear" or "set"
    _subscription_done,     \* None, or the Future: "pending" or "done"
    subscriber,             \* the _subscriber task: its position
    gatherer,               \* the _gatherer task: its position and its local `waiting`
    msgs,                   \* the messages handed to on_message, with the coroutine's locals
    delivery,               \* delivery[<<message, channel>>]: how far channel.deliver(message) got
    subscribeCalls,         \* the topic names of every consumer.subscribe call, in order (history)
    changes,                \* the number of add / discard calls that flagged a change
    \* ---- Topic ----
    origin,     \* the Topic the application constructed
    derived,    \* the Topic the last successful derive returned (origin before the first)
    deriveLog,  \* the derive calls so far: their number, and the last call (history)
    iterators,  \* the number of clones __aiter__ made of the Topic `origin`
    _declared,  \* _declared[o]: the latch of object o (0 is origin, the others its clones)
    declares,   \* the maybe_declare coroutines, in order of invocation
    created     \* created[name]: the number of create_topic calls issued for name

attVars == <<_pending, nextFm, fmSource, handed, commits, revokedPending, lastMaybePut>>

tblVars == <<data, lateAdd, _channels, _changelogs, _table_offsets, _standbys, _revivers,
             _ongoing_recovery, _recovery_started, recovery_completed, _stopped,
             rec, hdl, rebalance, consumer, observed, cycleLog>>

topVars == <<_topics, _topicmap, _pending_tasks, _subscription_changed, _subscription_done,
             subscriber, gatherer, msgs, delivery, subscribeCalls, changes>>

drvVars == <<origin, derived, deriveLog>>

declVars == <<iterators, _declared, declares, created>>

vars == <<attVars, tblVars, topVars, drvVars, declVars>>

(***************************************************************************)
(* Attachments                                                             *)
(***************************************************************************)
\* The topic-partitions of the source topic the processors read.
SourceTPs == {<<"orders", 0>>, <<"orders", 1>>}
SrcOffsets == 0..MaxSrcOffset
FmIds == 1..MaxFm

\* What current_event() returns: <<>> for None, or the <<tp, offset>> of the
\* message the event wraps.
NoEvent == <<>>
CurrentEvents == {NoEvent} \cup (SourceTPs \X SrcOffsets)

SeqToSet(s) == {s[i] : i \in 1..Len(s)}

\* Every FutureMessage in the buffer of tp.
PendingFor(tp) == UNION {SeqToSet(_pending[tp][o]) : o \in SrcOffsets}

AttachmentsInit ==
    /\ _pending = [tp \in SourceTPs |-> [o \in SrcOffsets |-> <<>>]]
    /\ nextFm = 1
    /\ fmSource = [f \in FmIds |-> <<>>]
    /\ handed = [f \in FmIds |-> 0]
    /\ commits = <<>>
    /\ revokedPending = {}
    /\ lastMaybePut = [called |-> FALSE, force |-> FALSE, event |-> NoEvent,
                       fm |-> 0, sent |-> FALSE]

\* Attachments.put: append a new FutureMessage to _pending[message.tp][message.offset].
put(tp, offset) ==
    /\ _pending' = [_pending EXCEPT ![tp][offset] = Append(@, nextFm)]
    /\ fmSource' = [fmSource EXCEPT ![nextFm] = <<tp, offset>>]
    /\ nextFm' = nextFm + 1

\* A call of Attachments.put that does not come from maybe_put.
Attachments_put(tp, offset) ==
    /\ nextFm <= MaxFm
    /\ put(tp, offset)
    /\ UNCHANGED <<handed, commits, revokedPending, lastMaybePut>>
    /\ UNCHANGED <<tblVars, topVars, drvVars, declVars>>

\* Event._attach: the event calls put with the message it wraps.
Event_attach(event) == put(event[1], event[2])

\* App.send: the message is published through the channel at once; its
\* FutureMessage is no part of the state of Attachments.
App_send == UNCHANGED <<_pending, fmSource, nextFm>>

\* A variant of maybe_put_attaches that does not look at `force`.
maybe_put_attaches_forced_too(force, event) == event # NoEvent

\* Attachments.maybe_put, the test of lines 61-63: the message is attached
\* when force is false and current_event() is not None.
maybe_put_attaches(force, event) == ~force /\ event # NoEvent

\* Attachments.maybe_put, called with `force` while current_event() returns
\* `event`.  lastMaybePut records the call: its arguments, the FutureMessage
\* put made for it (0 when there is none) and whether it went to App.send.
Attachments_maybe_put(force, event) ==
    /\ nextFm <= MaxFm
    /\ IF maybe_put_attaches(force, event)
         THEN /\ Event_attach(event)
              /\ lastMaybePut' = [called |-> TRUE, force |-> force, event |-> event,
                                  fm |-> nextFm, sent |-> FALSE]
         ELSE /\ App_send
              /\ lastMaybePut' = [called |-> TRUE, force |-> force, event |-> event,
                                  fm |-> 0, sent |-> TRUE]
    /\ UNCHANGED <<handed, commits, revokedPending>>
    /\ UNCHANGED <<tblVars, topVars, drvVars, declVars>>

RECURSIVE ConcatUpTo(_, _)
ConcatUpTo(byOffset, o) ==
    IF o < 0 THEN <<>> ELSE ConcatUpTo(byOffset, o - 1) \o byOffset[o]

\* A variant of _attachments_for_popped: a range commit, which returns the
\* attachments of every offset up to the committed one.
_attachments_for_popped_range(tp, commit_offset) ==
    ConcatUpTo(_pending[tp], commit_offset)

\* Attachments._attachments_for: self._pending[tp].pop(commit_offset, None);
\* the popped list (<<>> for None) ...
_attachments_for_popped(tp, commit_offset) == _pending[tp][commit_offset]

\* A variant of _attachments_for_rest: the list is read and left in the buffer
\* (a get instead of a pop).
_attachments_for_rest_kept(tp, commit_offset) == _pending

\* A variant of _attachments_for_rest: the first FutureMessage is taken off
\* the list and the list stays in the buffer.
_attachments_for_rest_first_only(tp, commit_offset) ==
    [_pending EXCEPT ![tp][commit_offset] = IF @ = <<>> THEN @ ELSE Tail(@)]

\* ... and the buffer without the key.
_attachments_for_rest(tp, commit_offset) ==
    [_pending EXCEPT ![tp][commit_offset] = <<>>]

\* Attachments.commit up to its first suspension: pop the list and, when it is
\* not empty, call publish_message on its first FutureMessage (the call runs
\* to the producer's first suspension inside the same step).
Attachments_commit(tp, offset) ==
    /\ Len(commits) < MaxCommits
    /\ LET attached == _attachments_for_popped(tp, offset) IN
         /\ _pending' = _attachments_for_rest(tp, offset)
         /\ IF attached = <<>>
              THEN /\ commits' = Append(commits,
                        [tp |-> tp, offset |-> offset, attached |-> <<>>,
                         idx |-> 0, pc |-> "returned"])
                   /\ UNCHANGED handed
              ELSE /\ commits' = Append(commits,
                        [tp |-> tp, offset |-> offset, attached |-> attached,
                         idx |-> 1, pc |-> "publish"])
                   /\ handed' = [handed EXCEPT ![attached[1]] = @ + 1]
    /\ UNCHANGED <<nextFm, fmSource, revokedPending, lastMaybePut>>
    /\ UNCHANGED <<tblVars, topVars, drvVars, declVars>>

\* Attachments.commit, the list comprehension of line 117: the awaited
\* publish_message(fut, wait=False) of commit i ends.  When producer.send
\* accepted the message the comprehension goes on to the next FutureMessage,
\* or, after the last one, to asyncio.wait; when it raised, the error leaves
\* commit.
Attachments_commit_publish(i, ok) ==
    /\ i \in 1..Len(commits)
    /\ commits[i].pc = "publish"
    /\ LET c == commits[i] IN
         IF ~ok
           THEN /\ commits' = [commits EXCEPT ![i].pc = "raised"]
                /\ UNCHANGED handed
           ELSE IF c.idx < Len(c.attached)
             THEN /\ commits' = [commits EXCEPT ![i].idx = c.idx + 1]
                  /\ handed' = [handed EXCEPT ![c.attached[c.idx + 1]] = @ + 1]
             ELSE /\ commits' = [commits EXCEPT ![i].pc = "wait"]
                  /\ UNCHANGED handed
    /\ UNCHANGED <<_pending, nextFm, fmSource, revokedPending, lastMaybePut>>
    /\ UNCHANGED <<tblVars, topVars, drvVars, declVars>>

\* A rebalance revokes the partitions `revoked`.  The only code the worker
\* runs for it is TableManager.on_partitions_revoked, which touches no
\* attachment state; Attachments has no revocation hook.
Attachments_on_partitions_revoked(revoked) ==
    /\ revokedPending' = revokedPending \cup UNION {PendingFor(tp) : tp \in revoked}
    /\ UNCHANGED <<_pending, nextFm, fmSource, handed, commits, lastMaybePut>>
    /\ UNCHANGED <<tblVars, topVars, drvVars, declVars>>

NextAttachments ==
    \/ \E tp \in SourceTPs, o \in SrcOffsets : Attachments_put(tp, o)
    \/ \E tp \in SourceTPs, o \in SrcOffsets : Attachments_commit(tp, o)
    \/ \E i \in 1..MaxCommits, ok \in BOOLEAN : Attachments_commit_publish(i, ok)
    \/ \E revoked \in (SUBSET SourceTPs) \ {{}} : Attachments_on_partitions_revoked(revoked)

\* The buffer with the processors' calls of maybe_put.  A maybe_put either
\* makes the change of a put or changes nothing in the state of Attachments,
\* so it adds no state of the buffer to those of NextAttachments.
NextMaybePut ==
    \/ \E force \in BOOLEAN, event \in CurrentEvents : Attachments_maybe_put(force, event)
    \/ \E tp \in SourceTPs, o \in SrcOffsets : Attachments_commit(tp, o)
    \/ \E i \in 1..MaxCommits, ok \in BOOLEAN : Attachments_commit_publish(i, ok)

(***************************************************************************)
(* TableManager                                                            *)
(***************************************************************************)
\* The tables the application may register, the changelog topic of each
\* (table.changelog_topic.get_topic_name()) and the TPs of the broker.
Tables == {"t1", "t2"}
ChangelogTopicName(t) == IF t = "t1" THEN "t1-changelog" ELSE "t2-changelog"
AllTPs == {<<"orders", 0>>, <<"t1-changelog", 0>>, <<"t2-changelog", 0>>}
TopicOf(tp) == tp[1]
\* Offsets, with the sentinel -1, and what table.persisted_offset(tp) returns
\* (here -1 stands for None: the table has persisted no offset for the tp).
Offsets == (-1)..MaxOffset
PersistedOffsets == (-1)..MaxOffset
IsNone(persisted_offset) == persisted_offset < 0

Max(a, b) == IF a >= b THEN a ELSE b

EmptyMap == [x \in {} |-> None]
\* self._revivers: None, or a list of readers.
NoRevivers == [is_none |-> TRUE, list |-> <<>>]
ReviverList(readers) == [is_none |-> FALSE, list |-> readers]
RegisteredTables == SeqToSet(data)

TableManagerInit ==
    /\ data = <<>>
    /\ lateAdd = None
    /\ _channels = {}
    /\ _changelogs = {}
    /\ _table_offsets = [tp \in AllTPs |-> -1]
    /\ _standbys = EmptyMap
    /\ _revivers = NoRevivers
    /\ _ongoing_recovery = None
    /\ _recovery_started = FALSE
    /\ recovery_completed = FALSE
    /\ _stopped = FALSE
    /\ rec = [pc |-> "idle", assigned |-> {}, actives |-> {}, standby_tps |-> {},
              idx |-> 0, todo |-> {}, cur |-> None]
    /\ hdl = [pc |-> "idle", kind |-> None, todo |-> {}, cur |-> None]
    /\ rebalance = [last |-> "none", cycles |-> 0, assertFailed |-> FALSE]
    /\ consumer = [assignment |-> {}, paused |-> {}]
    /\ observed = [tp \in AllTPs |-> -1]
    /\ cycleLog = [abort |-> FALSE, afterAbort |-> {}, completed |-> FALSE,
                   resumed |-> {}, interrupted |-> FALSE]

\* A variant of TableManager.add that does not look at the latch.
TableManager_add_unchecked(table) ==
    /\ IF table \in RegisteredTables
         THEN UNCHANGED <<data, lateAdd>>
         ELSE /\ data' = Append(data, table)
              /\ lateAdd' = IF rebalance.cycles > 0 THEN "added" ELSE lateAdd
    /\ UNCHANGED <<_channels, _changelogs, _table_offsets, _standbys, _revivers,
                   _ongoing_recovery, _recovery_started, recovery_completed, _stopped,
                   rec, hdl, rebalance, consumer, observed, cycleLog>>
    /\ UNCHANGED <<attVars, topVars, drvVars, declVars>>

\* TableManager.add.
TableManager_add(table) ==
    /\ IF _recovery_started
         THEN \* RuntimeError('Too late to add tables at this point')
              /\ lateAdd' = "AddTooLate"
              /\ UNCHANGED data
         ELSE IF table \in RegisteredTables
           THEN \* ValueError: the name is taken
                UNCHANGED <<data, lateAdd>>
           ELSE /\ data' = Append(data, table)
                /\ lateAdd' = IF rebalance.cycles > 0 THEN "added" ELSE lateAdd
    /\ UNCHANGED <<_channels, _changelogs, _table_offsets, _standbys, _revivers,
                   _ongoing_recovery, _recovery_started, recovery_completed, _stopped,
                   rec, hdl, rebalance, consumer, observed, cycleLog>>
    /\ UNCHANGED <<attVars, topVars, drvVars, declVars>>

\* TableManager.changelog_topics / _is_changelog_tp.
changelog_topics == _changelogs

\* A variant of _is_changelog_tp: no TP is taken for a changelog TP.
_is_changelog_tp_never(tp) == FALSE

_is_changelog_tp(tp) == TopicOf(tp) \in changelog_topics

\* A variant of sync_max: the offset read replaces the table offset.
sync_max_overwrite(curr_offset, offset) == offset

\* max(curr_offset, persisted_offset) of line 97 and max(table_offset, offset)
\* of line 109.
sync_max(curr_offset, offset) == Max(curr_offset, offset)

\* TableManager._sync_persisted_offsets, persisted[tp] being what
\* table.persisted_offset(tp) returns for each tp.
_sync_persisted_offsets(offsets, tps, persisted) ==
    [tp \in AllTPs |->
        IF tp \in tps /\ ~IsNone(persisted[tp])
          THEN sync_max(offsets[tp], persisted[tp])
          ELSE offsets[tp]]

\* TableManager._sync_offsets: fold reader.offsets into the table offsets.
_sync_offsets(offsets, reader) ==
    [tp \in AllTPs |->
        IF tp \in DOMAIN reader.offsets /\ reader.offsets[tp] >= 0
          THEN sync_max(offsets[tp], reader.offsets[tp])
          ELSE offsets[tp]]

RECURSIVE SyncAll(_, _, _)
\* for reviver in table_revivers: self._sync_offsets(reviver), from reviver i on.
SyncAll(offsets, readers, i) ==
    IF i > Len(readers) THEN offsets
    ELSE SyncAll(_sync_offsets(offsets, readers[i]), readers, i + 1)

\* The history that C9 compares with: the largest offset observed for each tp.
ObservePersisted(obs, tps, persisted) ==
    [tp \in AllTPs |->
        IF tp \in tps /\ ~IsNone(persisted[tp]) THEN Max(obs[tp], persisted[tp]) ELSE obs[tp]]

ObserveReader(obs, reader) ==
    [tp \in AllTPs |->
        IF tp \in DOMAIN reader.offsets /\ reader.offsets[tp] >= 0
          THEN Max(obs[tp], reader.offsets[tp]) ELSE obs[tp]]

RECURSIVE ObserveAll(_, _, _)
ObserveAll(obs, readers, i) ==
    IF i > Len(readers) THEN obs
    ELSE ObserveAll(ObserveReader(obs, readers[i]), readers, i + 1)

\* A ChangelogReader or StandbyReader as the manager constructs it: its TPs
\* and the offsets it is seeded with (tp_offsets; -1 for a tp without one).
NewReader(table, table_tps, offsets) ==
    [table |-> table, tps |-> table_tps, st |-> "created",
     offsets |-> [tp \in table_tps |-> offsets[tp]], recovered |-> FALSE]

\* TableManager._create_reviver, after _sync_persisted_offsets gave `offsets`.
_create_reviver(table, tps, offsets) ==
    NewReader(table, {tp \in tps : TopicOf(tp) = ChangelogTopicName(table)}, offsets)

\* The TPs _create_reviver syncs the persisted offsets of, over all tables.
ReviverTps(tps) ==
    {tp \in tps : \E t \in RegisteredTables : TopicOf(tp) = ChangelogTopicName(t)}

\* TableManager._group_table_tps: the tables that have a TP in tps, and the
\* TPs of one of them.
_group_table_tps(tps) ==
    {t \in RegisteredTables : \E tp \in tps :
        _is_changelog_tp(tp) /\ TopicOf(tp) = ChangelogTopicName(t)}

TableTps(t, tps) == {tp \in tps : TopicOf(tp) = ChangelogTopicName(t)}

\* What the recovery task does after a revoke asked for its abort is logged.
Logged(log, effect) ==
    [log EXCEPT !.afterAbort = IF log.abort THEN @ \cup {effect} ELSE @]

RecoveryInFlight == _ongoing_recovery # None /\ rec.pc \notin {"idle", "done", "raised"}

\* TableManager.on_partitions_assigned.  The consumer calls it after the
\* on_partitions_revoked of the same rebalance has returned; the consumer's
\* assignment is the new one by then.
TableManager_on_partitions_assigned(assigned) ==
    /\ hdl.pc = "idle" /\ ~_stopped
    /\ rebalance.last # "assigned"
    /\ rebalance.cycles < MaxCycles
    /\ consumer' = [assignment |-> assigned, paused |-> consumer.paused \cap assigned]
    /\ IF _ongoing_recovery = None /\ _revivers.is_none
         THEN /\ _ongoing_recovery' = "task"
              /\ rec' = [pc |-> "scheduled", assigned |-> assigned, actives |-> {},
                         standby_tps |-> {}, idx |-> 0, todo |-> {}, cur |-> None]
              /\ cycleLog' = [abort |-> FALSE, afterAbort |-> {}, completed |-> FALSE,
                              resumed |-> {}, interrupted |-> FALSE]
              /\ rebalance' = [rebalance EXCEPT !.last = "assigned", !.cycles = @ + 1]
         ELSE \* the assertion of line 294 fails
              /\ rebalance' = [last |-> "assigned", cycles |-> rebalance.cycles + 1,
                               assertFailed |-> TRUE]
              /\ UNCHANGED <<_ongoing_recovery, rec, cycleLog>>
    /\ UNCHANGED <<data, lateAdd, _channels, _changelogs, _table_offsets, _standbys,
                   _revivers, _recovery_started, recovery_completed, _stopped, hdl,
                   observed>>
    /\ UNCHANGED <<attVars, topVars, drvVars, declVars>>

\* The TPs resume_partitions is called with (lines 252-255).
ResumeSet == {tp \in rec.assigned : ~_is_changelog_tp(tp)}

\* A variant of _recover_start in which _update_channels pauses nothing.
_recover_start_no_pause(assigned_tps, standby_tps) ==
    /\ rec.pc = "scheduled"
    /\ assigned_tps \subseteq rec.assigned
    /\ rec' = [rec EXCEPT !.pc = "pause", !.actives = assigned_tps,
                          !.standby_tps = standby_tps]
    /\ _recovery_started' = TRUE
    /\ _channels' = _channels \cup RegisteredTables
    /\ _changelogs' = _changelogs \cup {ChangelogTopicName(t) : t \in RegisteredTables}
    /\ UNCHANGED <<data, lateAdd, _table_offsets, _standbys, _revivers, _ongoing_recovery,
                   recovery_completed, _stopped, hdl, rebalance, observed, cycleLog,
                   consumer>>
    /\ UNCHANGED <<attVars, topVars, drvVars, declVars>>

\* _recover, from the start of the task to the await of pause_partitions:
\* lines 228-235 with _on_recovery_started and _update_channels.  The
\* assignor's actives are a subset of `assigned` (the assertion of line 232).
_recover_start(assigned_tps, standby_tps) ==
    /\ rec.pc = "scheduled"
    /\ assigned_tps \subseteq rec.assigned
    /\ rec' = [rec EXCEPT !.pc = "pause", !.actives = assigned_tps,
                          !.standby_tps = standby_tps]
    /\ _recovery_started' = TRUE
    /\ _channels' = _channels \cup RegisteredTables
    /\ _changelogs' = _changelogs \cup {ChangelogTopicName(t) : t \in RegisteredTables}
    /\ consumer' = [consumer EXCEPT !.paused = @ \cup
            {tp \in consumer.assignment : TopicOf(tp) \in _changelogs'}]
    /\ UNCHANGED <<data, lateAdd, _table_offsets, _standbys, _revivers, _ongoing_recovery,
                   recovery_completed, _stopped, hdl, rebalance, observed, cycleLog>>
    /\ UNCHANGED <<attVars, topVars, drvVars, declVars>>

\* A variant of LatchAndResume that calls resume_partitions and leaves the
\* latch as it is.
LatchAndResume_resume_only ==
    /\ UNCHANGED recovery_completed
    /\ consumer' = [consumer EXCEPT !.paused = @ \ ResumeSet]
    /\ cycleLog' = [Logged(cycleLog, "resume") EXCEPT !.resumed = ResumeSet]
    /\ rec' = [rec EXCEPT !.pc = "resume", !.todo = {}, !.cur = None]

\* _on_recovery_completed from the set of the latch, and the call of
\* resume_partitions (lines 169, 252-255).
LatchAndResume ==
    /\ recovery_completed' = TRUE
    /\ consumer' = [consumer EXCEPT !.paused = @ \ ResumeSet]
    /\ cycleLog' = [Logged(Logged(cycleLog, "latch"), "resume")
                      EXCEPT !.completed = TRUE, !.resumed = ResumeSet]
    /\ rec' = [rec EXCEPT !.pc = "resume", !.todo = {}, !.cur = None]

\* _on_recovery_completed: await table.maybe_start() of every table first.
OnRecoveryCompletedBegin ==
    IF Len(data) > 0
      THEN /\ rec' = [rec EXCEPT !.pc = "maybe_start", !.todo = {}, !.cur = None]
           /\ UNCHANGED <<recovery_completed, consumer, cycleLog>>
      ELSE LatchAndResume

\* A variant of AfterRecoverChangelogs: the success branch whatever the result.
AfterRecoverChangelogs_always(did_recover, revivers) ==
    /\ _revivers' = ReviverList(revivers)
    /\ rec' = [rec EXCEPT !.pc = IF Len(data) > 0 THEN "callbacks" ELSE "seek",
                          !.idx = 0]

\* _recover after _recover_changelogs returned did_recover (lines 240-258):
\* up to the await of the recover callbacks or of perform_seek, or to the end.
AfterRecoverChangelogs(did_recover, revivers) ==
    IF did_recover /\ ~_stopped
      THEN /\ _revivers' = ReviverList(revivers)
           /\ rec' = [rec EXCEPT !.pc = IF Len(data) > 0 THEN "callbacks" ELSE "seek",
                                 !.idx = 0]
      ELSE /\ _revivers' = NoRevivers
           /\ rec' = [rec EXCEPT !.pc = "done", !.idx = 0]

\* pause_partitions returned.  With tables, the task awaits their
\* on_partitions_assigned; without, _recover_changelogs has nothing to start,
\* to wait for or to stop, and returns all([]) = True at once.
_recover_paused ==
    /\ rec.pc = "pause"
    /\ IF Len(data) > 0
         THEN rec' = [rec EXCEPT !.pc = "tables_assigned"] /\ UNCHANGED _revivers
         ELSE AfterRecoverChangelogs(TRUE, <<>>)
    /\ cycleLog' = [cycleLog EXCEPT !.interrupted = Len(data) = 0 /\ _stopped]
    /\ UNCHANGED <<data, lateAdd, _channels, _changelogs, _table_offsets, _standbys,
                   _ongoing_recovery, _recovery_started, recovery_completed, _stopped,
                   hdl, rebalance, consumer, observed>>
    /\ UNCHANGED <<attVars, topVars, drvVars, declVars>>

\* _recover_changelogs, lines 184-188: every table's on_partitions_assigned
\* returned; the revivers are created (each after _sync_persisted_offsets) and
\* the first one's start() is awaited.
_recover_changelogs_create(persisted) ==
    /\ rec.pc = "tables_assigned"
    /\ LET tps == ReviverTps(rec.actives)
           offsets == _sync_persisted_offsets(_table_offsets, tps, persisted)
       IN /\ _table_offsets' = offsets
          /\ observed' = ObservePersisted(observed, tps, persisted)
          /\ _revivers' = ReviverList([i \in 1..Len(data) |->
                              _create_reviver(data[i], rec.actives, offsets)])
    /\ rec' = [rec EXCEPT !.pc = "start", !.idx = 1]
    /\ UNCHANGED <<data, lateAdd, _channels, _changelogs, _standbys, _ongoing_recovery,
                   _recovery_started, recovery_completed, _stopped, hdl, rebalance,
                   consumer, cycleLog>>
    /\ UNCHANGED <<attVars, topVars, drvVars, declVars>>

\* _recover_changelogs, line 188: reviver.start() returned; the next one is
\* started, or the task awaits the gather of line 191.
_recover_changelogs_started ==
    /\ rec.pc = "start"
    /\ _revivers' = [_revivers EXCEPT !.list[rec.idx].st =
                        IF @ = "created" THEN "started" ELSE @]
    /\ rec' = IF rec.idx < Len(_revivers.list)
                THEN [rec EXCEPT !.idx = @ + 1]
                ELSE [rec EXCEPT !.pc = "reading", !.idx = 0]
    /\ UNCHANGED <<data, lateAdd, _channels, _changelogs, _table_offsets, _standbys,
                   _ongoing_recovery, _recovery_started, recovery_completed, _stopped,
                   hdl, rebalance, consumer, observed, cycleLog>>
    /\ UNCHANGED <<attVars, topVars, drvVars, declVars>>

\* _recover_changelogs, lines 191-200: every wait_done_reading() returned; the
\* readers' offsets are folded into _table_offsets and the first reviver's
\* stop() is awaited.
_recover_changelogs_done_reading ==
    /\ rec.pc = "reading"
    /\ \A i \in 1..Len(_revivers.list) : _revivers.list[i].st \in {"done", "stopped"}
    /\ _table_offsets' = SyncAll(_table_offsets, _revivers.list, 1)
    /\ observed' = ObserveAll(observed, _revivers.list, 1)
    /\ rec' = [rec EXCEPT !.pc = "stop", !.idx = 1]
    /\ cycleLog' = [cycleLog EXCEPT !.interrupted =
                        \/ _stopped
                        \/ \E i \in 1..Len(_revivers.list) : ~_revivers.list[i].recovered]
    /\ UNCHANGED <<data, lateAdd, _channels, _changelogs, _standbys, _revivers,
                   _ongoing_recovery, _recovery_started, recovery_completed, _stopped,
                   hdl, rebalance, consumer>>
    /\ UNCHANGED <<attVars, topVars, drvVars, declVars>>

\* _recover_changelogs, lines 199-203: reviver.stop() returned; after the last
\* one the result all(reviver.recovered()) decides how _recover goes on.
_recover_changelogs_stopped ==
    /\ rec.pc = "stop"
    /\ LET revivers == [_revivers.list EXCEPT ![rec.idx].st = "stopped"] IN
         IF rec.idx < Len(revivers)
           THEN /\ _revivers' = ReviverList(revivers)
                /\ rec' = [rec EXCEPT !.idx = @ + 1]
           ELSE AfterRecoverChangelogs(
                    \A i \in 1..Len(revivers) : revivers[i].recovered, revivers)
    /\ UNCHANGED <<data, lateAdd, _channels, _changelogs, _table_offsets, _standbys,
                   _ongoing_recovery, _recovery_started, recovery_completed, _stopped,
                   hdl, rebalance, consumer, observed, cycleLog>>
    /\ UNCHANGED <<attVars, topVars, drvVars, declVars>>

\* _recover, lines 243-248: the recover callbacks ended; perform_seek is awaited.
_recover_callbacks ==
    /\ rec.pc = "callbacks"
    /\ rec' = [rec EXCEPT !.pc = "seek"]
    /\ UNCHANGED <<data, lateAdd, _channels, _changelogs, _table_offsets, _standbys,
                   _revivers, _ongoing_recovery, _recovery_started, recovery_completed,
                   _stopped, hdl, rebalance, consumer, observed, cycleLog>>
    /\ UNCHANGED <<attVars, topVars, drvVars, declVars>>

\* _start_standbys, the loop of lines 139-157 with the tables `todo` left:
\* the next table's standby is created and its start() awaited; after the
\* last one _on_recovery_completed begins.
StartStandbysFrom(todo, standbys) ==
    IF todo # {}
      THEN \E t \in todo :
             LET tps == TableTps(t, rec.standby_tps) IN
             \E persisted \in [tps -> PersistedOffsets] :
               LET offsets == _sync_persisted_offsets(_table_offsets, tps, persisted) IN
                 /\ _table_offsets' = offsets
                 /\ observed' = ObservePersisted(observed, tps, persisted)
                 /\ _standbys' = [x \in DOMAIN standbys \cup {t} |->
                                     IF x = t THEN NewReader(t, tps, offsets)
                                     ELSE standbys[x]]
                 /\ rec' = [rec EXCEPT !.pc = "standby", !.todo = todo \ {t}, !.cur = t]
                 /\ cycleLog' = Logged(cycleLog, "standby")
                 /\ UNCHANGED <<recovery_completed, consumer>>
      ELSE /\ _standbys' = standbys
           /\ UNCHANGED <<_table_offsets, observed>>
           /\ OnRecoveryCompletedBegin

\* _recover, lines 248-249: perform_seek returned; _start_standbys begins
\* (its assertion `not self._standbys` ends the task with an error).
_recover_seek ==
    /\ rec.pc = "seek"
    /\ IF DOMAIN _standbys # {}
         THEN /\ rec' = [rec EXCEPT !.pc = "raised"]
              /\ UNCHANGED <<_standbys, _table_offsets, observed, recovery_completed,
                             consumer, cycleLog>>
         ELSE StartStandbysFrom(_group_table_tps(rec.standby_tps), _standbys)
    /\ UNCHANGED <<data, lateAdd, _channels, _changelogs, _revivers, _ongoing_recovery,
                   _recovery_started, _stopped, hdl, rebalance>>
    /\ UNCHANGED <<attVars, topVars, drvVars, declVars>>

\* _start_standbys, line 157: standby.start() returned.
_start_standbys_started ==
    /\ rec.pc = "standby"
    /\ StartStandbysFrom(rec.todo,
          IF rec.cur \in DOMAIN _standbys
            THEN [_standbys EXCEPT ![rec.cur].st = IF @ = "created" THEN "started" ELSE @]
            ELSE _standbys)
    /\ UNCHANGED <<data, lateAdd, _channels, _changelogs, _revivers, _ongoing_recovery,
                   _recovery_started, _stopped, hdl, rebalance>>
    /\ UNCHANGED <<attVars, topVars, drvVars, declVars>>

\* _on_recovery_completed, lines 167-169, and _recover, line 252: every
\* table.maybe_start() returned; the latch is set and resume_partitions awaited.
_on_recovery_completed ==
    /\ rec.pc = "maybe_start"
    /\ LatchAndResume
    /\ UNCHANGED <<data, lateAdd, _channels, _changelogs, _table_offsets, _standbys,
                   _revivers, _ongoing_recovery, _recovery_started, _stopped, hdl,
                   rebalance, observed>>
    /\ UNCHANGED <<attVars, topVars, drvVars, declVars>>

\* _recover, line 258: resume_partitions returned; the task ends.
_recover_resumed ==
    /\ rec.pc = "resume"
    /\ _revivers' = NoRevivers
    /\ rec' = [rec EXCEPT !.pc = "done"]
    /\ UNCHANGED <<data, lateAdd, _channels, _changelogs, _table_offsets, _standbys,
                   _ongoing_recovery, _recovery_started, recovery_completed, _stopped,
                   hdl, rebalance, consumer, observed, cycleLog>>
    /\ UNCHANGED <<attVars, topVars, drvVars, declVars>>

\* The positions at which _recover awaits a call of the consumer, of a table
\* or of a reader that can raise.  (asyncio.wait of the recover callbacks,
\* line 247, returns also when a callback failed.)
RaisingAwaits == {"pause", "tables_assigned", "start", "reading", "stop", "seek",
                  "standby", "maybe_start", "resume"}

\* _recover: the call it awaits raises.  Nothing in _recover or in
\* _recover_changelogs catches it: the task ends with the exception and the
\* statement of line 258 (self._revivers = None) is not reached.  The locals
\* of the task are gone with it.
_recover_raises ==
    /\ rec.pc \in RaisingAwaits
    /\ rec' = [rec EXCEPT !.pc = "raised", !.actives = {}, !.standby_tps = {},
                          !.idx = 0, !.todo = {}, !.cur = None]
    /\ UNCHANGED <<data, lateAdd, _channels, _changelogs, _table_offsets, _standbys,
                   _revivers, _ongoing_recovery, _recovery_started, recovery_completed,
                   _stopped, hdl, rebalance, consumer, observed, cycleLog>>
    /\ UNCHANGED <<attVars, topVars, drvVars, declVars>>

\* A started ChangelogReader ends reading: it reached the highwaters
\* (recovered) or failed; its offsets are the last ones it applied.
ChangelogReader_done_reading(i, offsets, recovered) ==
    /\ i \in 1..Len(_revivers.list)
    /\ _revivers.list[i].st = "started"
    /\ offsets \in [_revivers.list[i].tps -> Offsets]
    /\ _revivers' = [_revivers EXCEPT !.list[i].st = "done", !.list[i].offsets = offsets,
                                      !.list[i].recovered = recovered]
    /\ UNCHANGED <<data, lateAdd, _channels, _changelogs, _table_offsets, _standbys,
                   _ongoing_recovery, _recovery_started, recovery_completed, _stopped,
                   rec, hdl, rebalance, consumer, observed, cycleLog>>
    /\ UNCHANGED <<attVars, topVars, drvVars, declVars>>

\* The handler returns: on_partitions_revoked after the tables'
\* on_partitions_revoked, on_stop after the tables' stop.
HandlerReturns(kind) ==
    /\ hdl' = [pc |-> "idle", kind |-> None, todo |-> {}, cur |-> None]
    /\ rebalance' = [rebalance EXCEPT !.last = IF kind = "revoked" THEN "revoked" ELSE @]

\* The loop over the tables that ends both handlers (lines 288-289, 178-179).
HandlerTables(kind) ==
    IF Len(data) > 0
      THEN /\ hdl' = [pc |-> "tables", kind |-> kind, todo |-> {}, cur |-> None]
           /\ UNCHANGED rebalance
      ELSE HandlerReturns(kind)

\* _stop_standbys, lines 120-124, with the standbys `todo` left to stop: the
\* next one's stop() is awaited; after the last one _standbys is emptied and
\* the handler goes on to its tables.
StopStandbysFrom(kind, todo) ==
    IF todo # {}
      THEN /\ \E t \in todo :
                hdl' = [pc |-> "standby_stop", kind |-> kind, todo |-> todo \ {t},
                        cur |-> t]
           /\ UNCHANGED <<_standbys, rebalance>>
      ELSE /\ _standbys' = EmptyMap
           /\ HandlerTables(kind)

\* _maybe_abort_ongoing_recovery up to its first await (lines 261-272), and,
\* when it has nothing to wait for, the handler up to its next await.
HandlerBegin(kind) ==
    IF _ongoing_recovery # None /\ rec.pc \notin {"done", "raised"}
      THEN /\ hdl' = [pc |-> IF _revivers.list # <<>>
                               THEN "abort_stop" ELSE "abort_wait",
                      kind |-> kind, todo |-> {}, cur |-> None]
           /\ UNCHANGED <<_ongoing_recovery, _standbys, rebalance>>
      ELSE /\ _ongoing_recovery' = None
           /\ StopStandbysFrom(kind, DOMAIN _standbys)

\* TableManager.on_partitions_revoked, to its first await.  The consumer
\* calls it when a rebalance begins, at most once per assignment.
TableManager_on_partitions_revoked ==
    /\ hdl.pc = "idle" /\ ~_stopped
    /\ rebalance.last # "revoked"
    /\ cycleLog' = [cycleLog EXCEPT !.abort = @ \/ RecoveryInFlight]
    /\ HandlerBegin("revoked")
    /\ UNCHANGED <<data, lateAdd, _channels, _changelogs, _table_offsets, _revivers,
                   _recovery_started, recovery_completed, _stopped, rec, consumer,
                   observed>>
    /\ UNCHANGED <<attVars, topVars, drvVars, declVars>>

\* Service.stop: the _stopped event is set and on_stop runs to its first await.
TableManager_on_stop ==
    /\ hdl.pc = "idle" /\ ~_stopped
    /\ _stopped' = TRUE
    /\ HandlerBegin("stop")
    /\ UNCHANGED <<data, lateAdd, _channels, _changelogs, _table_offsets, _revivers,
                   _recovery_started, recovery_completed, rec, consumer, observed,
                   cycleLog>>
    /\ UNCHANGED <<attVars, topVars, drvVars, declVars>>

\* A variant of StopRevivers: the revivers are left running.
StopRevivers_none(revivers) == revivers

\* asyncio.wait([reviver.stop() for reviver in self._revivers]) (lines 268-269).
StopRevivers(revivers) ==
    [i \in 1..Len(revivers) |-> [revivers[i] EXCEPT !.st = "stopped"]]

\* _maybe_abort_ongoing_recovery, lines 268-272: every reviver.stop()
\* returned; the handler awaits the recovery task.
_maybe_abort_ongoing_recovery_stopped ==
    /\ hdl.pc = "abort_stop"
    /\ _revivers' = [_revivers EXCEPT !.list = StopRevivers(@)]
    /\ hdl' = [hdl EXCEPT !.pc = "abort_wait"]
    /\ UNCHANGED <<data, lateAdd, _channels, _changelogs, _table_offsets, _standbys,
                   _ongoing_recovery, _recovery_started, recovery_completed, _stopped,
                   rec, rebalance, consumer, observed, cycleLog>>
    /\ UNCHANGED <<attVars, topVars, drvVars, declVars>>

\* _maybe_abort_ongoing_recovery, lines 272-278: wait_for_stopped returned
\* (the recovery task ended, or the service is stopped); the handle is
\* dropped and _stop_standbys begins.
_maybe_abort_ongoing_recovery_waited ==
    /\ hdl.pc = "abort_wait"
    /\ rec.pc \in {"done", "raised"} \/ _stopped
    /\ _ongoing_recovery' = None
    /\ StopStandbysFrom(hdl.kind, DOMAIN _standbys)
    /\ UNCHANGED <<data, lateAdd, _channels, _changelogs, _table_offsets, _revivers,
                   _recovery_started, recovery_completed, _stopped, rec, consumer,
                   observed, cycleLog>>
    /\ UNCHANGED <<attVars, topVars, drvVars, declVars>>

\* _stop_standbys, lines 122-124: standby.stop() returned with the standby's
\* offsets being `offsets`; they are folded and the next standby is stopped.
_stop_standbys_stopped(offsets) ==
    /\ hdl.pc = "standby_stop"
    /\ hdl.cur \in DOMAIN _standbys
    /\ offsets \in [_standbys[hdl.cur].tps -> Offsets]
    /\ LET standby == [_standbys[hdl.cur] EXCEPT !.st = "stopped", !.offsets = offsets] IN
         /\ _table_offsets' = _sync_offsets(_table_offsets, standby)
         /\ observed' = ObserveReader(observed, standby)
         /\ IF hdl.todo # {}
              THEN /\ _standbys' = [_standbys EXCEPT ![hdl.cur] = standby]
                   /\ \E t \in hdl.todo :
                        hdl' = [hdl EXCEPT !.todo = @ \ {t}, !.cur = t]
                   /\ UNCHANGED rebalance
              ELSE /\ _standbys' = EmptyMap
                   /\ HandlerTables(hdl.kind)
    /\ UNCHANGED <<data, lateAdd, _channels, _changelogs, _revivers, _ongoing_recovery,
                   _recovery_started, recovery_completed, _stopped, rec, consumer,
                   cycleLog>>
    /\ UNCHANGED <<attVars, topVars, drvVars, declVars>>

\* The tables' on_partitions_revoked (lines 288-289) or stop (lines 178-179)
\* returned: the handler returns.
TableManager_handler_returns ==
    /\ hdl.pc = "tables"
    /\ HandlerReturns(hdl.kind)
    /\ UNCHANGED <<data, lateAdd, _channels, _changelogs, _table_offsets, _standbys,
                   _revivers, _ongoing_recovery, _recovery_started, recovery_completed,
                   _stopped, rec, consumer, observed, cycleLog>>
    /\ UNCHANGED <<attVars, topVars, drvVars, declVars>>

\* The sets on_partitions_assigned is called with.
Assignments == {{<<"orders", 0>>},
                {<<"orders", 0>>, <<"t1-changelog", 0>>},
                {<<"orders", 0>>, <<"t1-changelog", 0>>, <<"t2-changelog", 0>>}}
ChangelogTPs == {tp \in AllTPs : \E t \in Tables : TopicOf(tp) = ChangelogTopicName(t)}

NextTables ==
    \/ \E t \in Tables : TableManager_add(t)
    \/ \E assigned \in Assignments : TableManager_on_partitions_assigned(assigned)
    \/ \E actives \in SUBSET (rec.assigned \cap ChangelogTPs) :
         \E standby_tps \in SUBSET (ChangelogTPs \ rec.assigned) :
            _recover_start(actives, standby_tps)
    \/ _recover_paused
    \/ _recover_raises
    \/ \E persisted \in [ReviverTps(rec.actives) -> PersistedOffsets] :
         _recover_changelogs_create(persisted)
    \/ _recover_changelogs_started
    \/ \E i \in 1..Cardinality(Tables), recovered \in BOOLEAN :
         \E offsets \in [IF i <= Len(_revivers.list)
                            THEN _revivers.list[i].tps ELSE {} -> Offsets] :
            ChangelogReader_done_reading(i, offsets, recovered)
    \/ _recover_changelogs_done_reading
    \/ _recover_changelogs_stopped
    \/ _recover_callbacks
    \/ _recover_seek
    \/ _start_standbys_started
    \/ _on_recovery_completed
    \/ _recover_resumed
    \/ TableManager_on_partitions_revoked
    \/ TableManager_on_stop
    \/ _maybe_abort_ongoing_recovery_stopped
    \/ _maybe_abort_ongoing_recovery_waited
    \/ \E offsets \in [IF hdl.cur \in DOMAIN _standbys
                          THEN _standbys[hdl.cur].tps ELSE {} -> Offsets] :
         _stop_standbys_stopped(offsets)
    \/ TableManager_handler_returns

(***************************************************************************)
(* TopicManager                                                            *)
(*                                                                         *)
(* Three channels: c1 and c2 name topic "X", c3 names topic "Y".  The      *)
(* consumer hands the messages to on_message one after the other.  A       *)
(* delivery unit is the coroutine channel.deliver(message) that on_message *)
(* puts on _pending_tasks; the gatherer starts it.  Message (its reference *)
(* count) and Channel.deliver are outside src/ and follow the              *)
(* specification: incref_bulk adds the number of channels, and a channel   *)
(* that received the message releases its reference once.                  *)
(***************************************************************************)
Channels == {"c1", "c2", "c3"}
TopicNames == {"X", "Y"}
\* channel.topics: every channel names one topic.
ChannelTopic(c) == IF c = "c3" THEN "Y" ELSE "X"
MsgIds == 1..MaxMsgs
Units == MsgIds \X Channels

TopicManagerInit ==
    /\ _topics = {}
    /\ _topicmap = [t \in {} |-> {}]
    /\ _pending_tasks = <<>>
    /\ _subscription_changed = None
    /\ _subscription_done = None
    /\ subscriber = [pc |-> "sleep"]
    /\ gatherer = [pc |-> "get", waiting |-> {}]
    /\ msgs = <<>>
    /\ delivery = [u \in Units |-> "none"]
    /\ subscribeCalls = <<>>
    /\ changes = 0

\* _flag_changes: sets the Event when it exists.
FlaggedEvent == IF _subscription_changed = None THEN None ELSE "set"
\* _flag_changes: creates the Future when there is none.
FlaggedDone == IF _subscription_done = None THEN "pending" ELSE _subscription_done
\* notify(self._subscription_done): resolves a pending Future.
Notified == IF _subscription_done = "pending" THEN "done" ELSE _subscription_done

\* add(topic): a topic already registered changes nothing and flags nothing.
TopicManager_add(topic) ==
    /\ changes < MaxChanges
    /\ topic \notin _topics
    /\ _topics' = _topics \cup {topic}
    /\ _subscription_changed' = FlaggedEvent
    /\ _subscription_done' = FlaggedDone
    /\ changes' = changes + 1
    /\ UNCHANGED <<_topicmap, _pending_tasks, subscriber, gatherer, msgs, delivery,
                   subscribeCalls>>
    /\ UNCHANGED <<attVars, tblVars, drvVars, declVars>>

\* discard(topic): flags a change whether or not the topic was registered.
TopicManager_discard(topic) ==
    /\ changes < MaxChanges
    /\ _topics' = _topics \ {topic}
    /\ _subscription_changed' = FlaggedEvent
    /\ _subscription_done' = FlaggedDone
    /\ changes' = changes + 1
    /\ UNCHANGED <<_topicmap, _pending_tasks, subscriber, gatherer, msgs, delivery,
                   subscribeCalls>>
    /\ UNCHANGED <<attVars, tblVars, drvVars, declVars>>

\* A variant that does not recompute the map.
_update_topicmap_stale(topics) == _topicmap

\* _update_topicmap: clear, then one key per topic name of a registered channel.
_update_topicmap(topics) ==
    [t \in {ChannelTopic(c) : c \in topics} |-> {c \in topics : ChannelTopic(c) = t}]

\* The channels in the topic map, whatever their key.
MappedChannels == UNION {_topicmap[t] : t \in DOMAIN _topicmap}

\* _subscriber: sleep(2.0) returns; the map is computed and consumer.subscribe is called.
_subscriber_grace_elapsed ==
    /\ subscriber.pc = "sleep"
    /\ _topicmap' = _update_topicmap(_topics)
    /\ subscribeCalls' = Append(subscribeCalls, DOMAIN _topicmap')
    /\ subscriber' = [subscriber EXCEPT !.pc = "subscribe_first"]
    /\ UNCHANGED <<_topics, _pending_tasks, _subscription_changed, _subscription_done,
                   gatherer, msgs, delivery, changes>>
    /\ UNCHANGED <<attVars, tblVars, drvVars, declVars>>

\* _subscriber: the first consumer.subscribe returns; notify, create the Event, ev.wait().
_subscriber_first_subscribed ==
    /\ subscriber.pc = "subscribe_first"
    /\ _subscription_done' = Notified
    /\ _subscription_changed' = "clear"
    /\ subscriber' = [subscriber EXCEPT !.pc = "wait"]
    /\ UNCHANGED <<_topics, _topicmap, _pending_tasks, gatherer, msgs, delivery,
                   subscribeCalls, changes>>
    /\ UNCHANGED <<attVars, tblVars, drvVars, declVars>>

\* _subscriber: ev.wait() returns; the map is recomputed and consumer.subscribe is called.
_subscriber_changed ==
    /\ subscriber.pc = "wait"
    /\ _subscription_changed = "set"
    /\ _topicmap' = _update_topicmap(_topics)
    /\ subscribeCalls' = Append(subscribeCalls, DOMAIN _topicmap')
    /\ subscriber' = [subscriber EXCEPT !.pc = "subscribe"]
    /\ UNCHANGED <<_topics, _pending_tasks, _subscription_changed, _subscription_done,
                   gatherer, msgs, delivery, changes>>
    /\ UNCHANGED <<attVars, tblVars, drvVars, declVars>>

\* _subscriber: consumer.subscribe returns; ev.clear(), notify, ev.wait().
_subscriber_resubscribed ==
    /\ subscriber.pc = "subscribe"
    /\ _subscription_changed' = "clear"
    /\ _subscription_done' = Notified
    /\ subscriber' = [subscriber EXCEPT !.pc = "wait"]
    /\ UNCHANGED <<_topics, _topicmap, _pending_tasks, gatherer, msgs, delivery,
                   subscribeCalls, changes>>
    /\ UNCHANGED <<attVars, tblVars, drvVars, declVars>>

\* wait_for_subscriptions returns, at once or when the Future it awaits is
\* resolved: there is no Future, or the Future is done.
wait_for_subscriptions_returns ==
    _subscription_done = None \/ _subscription_done = "done"

\* A variant that reads the subscriber set instead of the topic map.
get_channels_for_topic_live(topic) == {c \in _topics : ChannelTopic(c) = topic}

\* self._topicmap.__getitem__ of the defaultdict(set).
get_channels_for_topic(topic) ==
    IF topic \in DOMAIN _topicmap THEN _topicmap[topic] ELSE {}

\* A missing key is inserted with an empty set by the defaultdict.
TopicmapAfterGet(topic) ==
    IF topic \in DOMAIN _topicmap THEN _topicmap
    ELSE [t \in DOMAIN _topicmap \cup {topic} |->
             IF t = topic THEN {} ELSE _topicmap[t]]

\* message.incref_bulk(channels): one reference per channel.
incref_bulk(channels) == Cardinality(channels)

\* A variant that takes the reference of one channel only.
incref_bulk_one_channel(channels) ==
    IF channels = {} THEN {} ELSE {CHOOSE c \in channels : TRUE}

\* The channels on_message passes to incref_bulk: the whole list, at once.
incref_bulk_channels(channels) == channels

\* The topic names the consumer has been subscribed to at some time: a
\* message of such a topic may have been fetched and be handed over later.
EverSubscribed == UNION SeqToSet(subscribeCalls)

OnMessageIdle ==
    IF msgs = <<>> THEN TRUE ELSE msgs[Len(msgs)].pc \in {"returned", "raised"}

\* on_message: look up the channels, incref_bulk, create the put tasks and
\* wait for them; asyncio.wait raises ValueError on an empty list.
on_message(topic) ==
    /\ Len(msgs) < MaxMsgs
    /\ OnMessageIdle
    /\ topic \in EverSubscribed
    /\ LET channels == get_channels_for_topic(topic)
       IN  msgs' = Append(msgs,
                     [topic       |-> topic,
                      channels    |-> channels,
                      todo        |-> channels,
                      refcount    |-> incref_bulk(incref_bulk_channels(channels)),
                      pc          |-> IF channels = {} THEN "raised" ELSE "wait"])
    /\ _topicmap' = TopicmapAfterGet(topic)
    /\ UNCHANGED <<_topics, _pending_tasks, _subscription_changed, _subscription_done,
                   subscriber, gatherer, delivery, subscribeCalls, changes>>
    /\ UNCHANGED <<attVars, tblVars, drvVars, declVars>>

\* One put task of on_message runs: _pending_tasks.put(channel.deliver(message)).
on_message_put(channel) ==
    /\ msgs # <<>>
    /\ LET m == Len(msgs)
       IN  /\ msgs[m].pc = "wait"
           /\ channel \in msgs[m].todo
           /\ _pending_tasks' = Append(_pending_tasks, <<m, channel>>)
           /\ delivery' = [delivery EXCEPT ![<<m, channel>>] = "queued"]
           /\ msgs' = [msgs EXCEPT ![m].todo = @ \ {channel}]
    /\ UNCHANGED <<_topics, _topicmap, _subscription_changed, _subscription_done,
                   subscriber, gatherer, subscribeCalls, changes>>
    /\ UNCHANGED <<attVars, tblVars, drvVars, declVars>>

\* on_message: every put task completed, asyncio.wait returns.
on_message_returns ==
    /\ msgs # <<>>
    /\ msgs[Len(msgs)].pc = "wait"
    /\ msgs[Len(msgs)].todo = {}
    /\ msgs' = [msgs EXCEPT ![Len(msgs)].pc = "returned"]
    /\ UNCHANGED <<_topics, _topicmap, _pending_tasks, _subscription_changed,
                   _subscription_done, subscriber, gatherer, delivery, subscribeCalls,
                   changes>>
    /\ UNCHANGED <<attVars, tblVars, drvVars, declVars>>

\* A variant of _gatherer_get that takes the unit enqueued last.
_gatherer_get_last ==
    /\ gatherer.pc = "get"
    /\ _pending_tasks # <<>>
    /\ LET unit == _pending_tasks[Len(_pending_tasks)]
       IN  /\ gatherer' = [pc |-> "wait", waiting |-> gatherer.waiting \cup {unit}]
           /\ delivery' = [delivery EXCEPT ![unit] = "running"]
    /\ _pending_tasks' = SubSeq(_pending_tasks, 1, Len(_pending_tasks) - 1)
    /\ UNCHANGED <<_topics, _topicmap, _subscription_changed, _subscription_done,
                   subscriber, msgs, subscribeCalls, changes>>
    /\ UNCHANGED <<attVars, tblVars, drvVars, declVars>>

\* _gatherer: _pending_tasks.get() returns a unit; it joins `waiting` and
\* asyncio.wait starts it.
_gatherer_get ==
    /\ gatherer.pc = "get"
    /\ _pending_tasks # <<>>
    /\ LET unit == Head(_pending_tasks)
       IN  /\ gatherer' = [pc |-> "wait", waiting |-> gatherer.waiting \cup {unit}]
           /\ delivery' = [delivery EXCEPT ![unit] = "running"]
    /\ _pending_tasks' = Tail(_pending_tasks)
    /\ UNCHANGED <<_topics, _topicmap, _subscription_changed, _subscription_done,
                   subscriber, msgs, subscribeCalls, changes>>
    /\ UNCHANGED <<attVars, tblVars, drvVars, declVars>>

\* _gatherer: wait(waiting, FIRST_COMPLETED) returns once a unit has finished;
\* the unfinished units stay in `waiting`.
_gatherer_wait_returns ==
    /\ gatherer.pc = "wait"
    /\ \E unit \in gatherer.waiting : delivery[unit] # "running"
    /\ gatherer' = [pc |-> "get",
                    waiting |-> {unit \in gatherer.waiting : delivery[unit] = "running"}]
    /\ UNCHANGED <<_topics, _topicmap, _pending_tasks, _subscription_changed,
                   _subscription_done, subscriber, msgs, delivery, subscribeCalls,
                   changes>>
    /\ UNCHANGED <<attVars, tblVars, drvVars, declVars>>

\* channel.deliver(message) finishes: the channel received the message, or
\* the delivery raised.  A delivery that stays blocked takes no step.
Channel_deliver(unit, ok) ==
    /\ delivery[unit] = "running"
    /\ delivery' = [delivery EXCEPT ![unit] = IF ok THEN "received" ELSE "raised"]
    /\ UNCHANGED <<_topics, _topicmap, _pending_tasks, _subscription_changed,
                   _subscription_done, subscriber, gatherer, msgs, subscribeCalls,
                   changes>>
    /\ UNCHANGED <<attVars, tblVars, drvVars, declVars>>

\* The reader of a channel is done with a message it received: message.decref().
Message_decref(unit) ==
    /\ delivery[unit] = "received"
    /\ delivery' = [delivery EXCEPT ![unit] = "acked"]
    /\ msgs' = [msgs EXCEPT ![unit[1]].refcount = @ - 1]
    /\ UNCHANGED <<_topics, _topicmap, _pending_tasks, _subscription_changed,
                   _subscription_done, subscriber, gatherer, subscribeCalls,
                   changes>>
    /\ UNCHANGED <<attVars, tblVars, drvVars, declVars>>

NextTopics ==
    \/ \E topic \in Channels : TopicManager_add(topic)
    \/ \E topic \in Channels : TopicManager_discard(topic)
    \/ _subscriber_grace_elapsed
    \/ _subscriber_first_subscribed
    \/ _subscriber_changed
    \/ _subscriber_resubscribed
    \/ \E topic \in TopicNames : on_message(topic)
    \/ \E channel \in Channels : on_message_put(channel)
    \/ on_message_returns
    \/ _gatherer_get
    \/ _gatherer_wait_returns
    \/ \E unit \in Units, ok \in BOOLEAN : Channel_deliver(unit, ok)
    \/ \E unit \in Units : Message_decref(unit)

(***************************************************************************)
(* Topic                                                                   *)
(***************************************************************************)
\* Optional values.  None is "None" for a model, a flag or a codec name, a
\* negative number for a count or a duration, and a record of its own for a
\* list of names, a pattern and a config map.
NoneInt == -1
NoTopics == [is_none |-> TRUE, list |-> <<>>]
Names(list) == [is_none |-> FALSE, list |-> list]
NonePattern == [kind |-> "none", s |-> ""]
StrPattern(str) == [kind |-> "str", s |-> str]
NoConfig == [is_none |-> TRUE, map |-> EmptyMap]
Config(map) == [is_none |-> FALSE, map |-> map]

\* The defaults of the application: app.default_partitions and
\* app.replication_factor.
default_partitions == 4
replication_factor == 1

\* re.compile(pattern): a compiled Pattern, which is not the str it came from.
re_compile(pattern) == [kind |-> "re", s |-> pattern.s]

\* The truth value of a pattern (None and '' are false, a compiled Pattern is
\* true) and of a list of names (None and [] are false).
PatternTruthy(pattern) ==
    \/ pattern.kind = "re"
    \/ pattern.kind = "str" /\ pattern.s # ""
TopicsTruthy(topics) == ~topics.is_none /\ topics.list # <<>>

\* The setter of Topic.pattern, lines 118-120 (the TypeError of lines 116-117
\* is in Topic_init).
pattern_setter(pattern) ==
    IF pattern.kind = "str" THEN re_compile(pattern) ELSE pattern

\* The setter of Topic.partitions, lines 128-129 and 132 (the ValueError of
\* lines 130-131 is in Topic_init).
partitions_setter(partitions) ==
    IF IsNone(partitions) THEN default_partitions ELSE partitions

\* The setter of Topic.replicas.
replicas_setter(replicas) ==
    IF IsNone(replicas) THEN replication_factor ELSE replicas

\* Topic.__init__: the error it raises ("None" when it returns) and the
\* Topic it makes.  Channel.__init__ keeps key_type and value_type.
Topic_init(kw) ==
    [error |-> IF PatternTruthy(kw.pattern) /\ TopicsTruthy(kw.topics)
                 THEN "TypeError"
                 ELSE IF partitions_setter(kw.partitions) = 0
                   THEN "ValueError"
                   ELSE None,
     topic |-> [topics     |-> kw.topics,
                pattern    |-> pattern_setter(kw.pattern),
                key_type   |-> kw.key_type,
                value_type |-> kw.value_type,
                partitions |-> partitions_setter(kw.partitions),
                retention  |-> kw.retention,
                compacting |-> kw.compacting,
                deleting   |-> kw.deleting,
                replicas   |-> replicas_setter(kw.replicas),
                config     |-> IF kw.config.is_none \/ kw.config.map = EmptyMap
                                 THEN EmptyMap ELSE kw.config.map]]

\* Topic._clone_args: the configuration of a Topic as keyword arguments, with
\* the key and value model of Channel._clone_args.
_clone_args(self) ==
    [topics     |-> self.topics,
     pattern    |-> self.pattern,
     key_type   |-> self.key_type,
     value_type |-> self.value_type,
     partitions |-> self.partitions,
     retention  |-> self.retention,
     compacting |-> self.compacting,
     deleting   |-> self.deleting,
     replicas   |-> self.replicas,
     config     |-> Config(self.config)]

\* f'{prefix}{topic}{suffix}' for every name of a list, in order.
Prefixed(prefix, list, suffix) ==
    [i \in 1..Len(list) |-> prefix \o list[i] \o suffix]

\* Topic.derive, lines 161-166: the names the new Topic is made with, or the
\* ValueError of line 164.  The assignment of line 166 stands in the block of
\* `if self.pattern:` behind its raise, so no call reaches it: the names keep
\* their value of line 161 whatever the prefix and the suffix are.
derive_topics(self, kw) ==
    LET topics == IF kw.topics.is_none THEN self.topics ELSE kw.topics IN
      IF kw.suffix # "" \/ kw.prefix # ""
        THEN IF PatternTruthy(self.pattern)
               THEN [error |-> "ValueError", topics |-> topics]
               ELSE [error |-> None, topics |-> topics]
        ELSE [error |-> None, topics |-> topics]

\* Topic.derive: the error it raises ("None" when it returns) and the Topic it
\* returns.  The constructor call of lines 167-178 passes no `replicas`, so
\* the parameter takes its default, None.
derive(self, kw) ==
    LET names == derive_topics(self, kw) IN
      IF names.error # None
        THEN [error |-> names.error, topic |-> self]
        ELSE Topic_init(
               [topics     |-> names.topics,
                pattern    |-> self.pattern,
                key_type   |-> IF kw.key_type = None THEN self.key_type ELSE kw.key_type,
                value_type |-> IF kw.value_type = None THEN self.value_type
                                                        ELSE kw.value_type,
                partitions |-> IF IsNone(kw.partitions) THEN self.partitions
                                                         ELSE kw.partitions,
                retention  |-> IF IsNone(kw.retention) THEN self.retention
                                                        ELSE kw.retention,
                compacting |-> IF kw.compacting = None THEN self.compacting
                                                        ELSE kw.compacting,
                deleting   |-> IF kw.deleting = None THEN self.deleting ELSE kw.deleting,
                replicas   |-> NoneInt,
                config     |-> IF kw.config.is_none THEN Config(self.config)
                                                     ELSE kw.config])

\* The arguments the application constructs its Topic with ...
TopicKwargs ==
    [topics     : {NoTopics, Names(<<"t1">>), Names(<<"t1", "t2">>)},
     pattern    : {NonePattern, StrPattern("^x$")},
     key_type   : {None, "K"},
     value_type : {None, "V"},
     partitions : {NoneInt, 8},
     retention  : {NoneInt, 60},
     compacting : {None, "True"},
     deleting   : {None, "True"},
     replicas   : {NoneInt, 3},
     config     : {NoConfig, Config([k \in {"cleanup.policy"} |-> "compact"])}]

\* ... and the keyword arguments of a derive call: none at all, or a prefix, a
\* suffix, a list of names and a partition count in every combination, or a
\* partition count of zero, or every other attribute at once.
NoOverrides ==
    [topics |-> NoTopics, key_type |-> None, value_type |-> None,
     partitions |-> NoneInt, retention |-> NoneInt, compacting |-> None,
     deleting |-> None, config |-> NoConfig, prefix |-> "", suffix |-> ""]

DeriveKwargs ==
    {[NoOverrides EXCEPT !.prefix = p, !.suffix = x, !.topics = t, !.partitions = n] :
        p \in {"", "p-"}, x \in {"", "-s"},
        t \in {NoTopics, Names(<<"u1">>)}, n \in {NoneInt, 2}}
    \cup {[NoOverrides EXCEPT !.partitions = 0]}
    \cup {[NoOverrides EXCEPT !.key_type = "K2", !.value_type = "V2", !.retention = 30,
                              !.compacting = "False", !.deleting = "False",
                              !.config = Config(EmptyMap)]}

NoDerive == [n |-> 0, plain |-> TRUE, self |-> Topic_init(
                 [NoOverrides EXCEPT !.topics = Names(<<"t1">>)] @@
                 [pattern |-> NonePattern, replicas |-> NoneInt]).topic,
             kw |-> NoOverrides, error |-> None]

\* One Topic, for the specifications of the other parts.
TopicInit ==
    /\ origin = NoDerive.self
    /\ derived = origin
    /\ deriveLog = NoDerive

\* Every Topic the constructor makes from TopicKwargs.
TopicDeriveInit ==
    /\ \E kw \in TopicKwargs :
          /\ Topic_init(kw).error = None
          /\ origin = Topic_init(kw).topic
    /\ derived = origin
    /\ deriveLog = NoDerive

\* A call of derive on the Topic reached so far.  deriveLog keeps the Topic
\* it was called on, its arguments and its error, the number of calls, and
\* whether every call so far was made without arguments.
Topic_derive(kw) ==
    /\ deriveLog.n < MaxDerives
    /\ LET res == derive(derived, kw) IN
         /\ derived' = IF res.error = None THEN res.topic ELSE derived
         /\ deriveLog' = [n |-> deriveLog.n + 1,
                          plain |-> deriveLog.plain /\ kw = NoOverrides,
                          self |-> derived, kw |-> kw, error |-> res.error]
    /\ UNCHANGED origin
    /\ UNCHANGED <<attVars, tblVars, topVars, declVars>>

NextDerive == \E kw \in DeriveKwargs : Topic_derive(kw)

\* The Topic objects: 0 is `origin`, 1..iterators are the clones __aiter__
\* made of it; and every topic name a Topic of the model is made with.
TopicObjects == 0..MaxIters
AllNames == {"t1", "t2"}

\* No object is declared: _declared is False in the class (line 62) and
\* __init__ does not set it.
DeclareInit ==
    /\ iterators = 0
    /\ _declared = [o \in TopicObjects |-> FALSE]
    /\ declares = <<>>
    /\ created = [name \in AllNames |-> 0]

\* The Topics maybe_declare is called on: those made with a list of names.
TopicDeclareInit ==
    /\ \E names \in {<<"t1">>, <<"t1", "t2">>} :
          origin = [NoDerive.self EXCEPT !.topics = Names(names)]
    /\ derived = origin
    /\ deriveLog = NoDerive

\* Topic.__aiter__: self.clone(is_iterator=True) makes a new Topic from
\* _clone_args, which holds no `_declared`: the clone has the names of the
\* original and the latch of a new object.
Topic_aiter ==
    /\ iterators < MaxIters
    /\ iterators' = iterators + 1
    /\ _declared' = [_declared EXCEPT ![iterators + 1] = FALSE]
    /\ UNCHANGED <<declares, created>>
    /\ UNCHANGED <<attVars, tblVars, topVars, drvVars>>

\* Topic.maybe_declare on object o, up to the await of maybe_start_producer
\* in declare: the latch is tested and set before the first suspension.
Topic_maybe_declare(o) ==
    /\ Len(declares) < MaxDeclares
    /\ o <= iterators
    /\ IF ~_declared[o]
         THEN /\ _declared' = [_declared EXCEPT ![o] = TRUE]
              /\ declares' = Append(declares, [self |-> o, idx |-> 0, pc |-> "producer"])
         ELSE /\ declares' = Append(declares, [self |-> o, idx |-> 0, pc |-> "returned"])
              /\ UNCHANGED _declared
    /\ UNCHANGED <<iterators, created>>
    /\ UNCHANGED <<attVars, tblVars, topVars, drvVars>>

\* declare: the loop of lines 232-238 from the name after position idx: the
\* next create_topic is issued and awaited, or the coroutine returns.
DeclareFrom(i, idx) ==
    IF idx < Len(origin.topics.list)
      THEN /\ created' = [created EXCEPT ![origin.topics.list[idx + 1]] = @ + 1]
           /\ declares' = [declares EXCEPT ![i].idx = idx + 1, ![i].pc = "create"]
      ELSE /\ declares' = [declares EXCEPT ![i].pc = "returned"]
           /\ UNCHANGED created

\* declare: maybe_start_producer returned.
Topic_declare_producer_started(i) ==
    /\ i \in 1..Len(declares)
    /\ declares[i].pc = "producer"
    /\ DeclareFrom(i, 0)
    /\ UNCHANGED <<iterators, _declared>>
    /\ UNCHANGED <<attVars, tblVars, topVars, drvVars>>

\* declare: the awaited create_topic returned, or raised; the error leaves
\* declare and maybe_declare.
Topic_declare_created(i, ok) ==
    /\ i \in 1..Len(declares)
    /\ declares[i].pc = "create"
    /\ IF ok
         THEN DeclareFrom(i, declares[i].idx)
         ELSE /\ declares' = [declares EXCEPT ![i].pc = "raised"]
              /\ UNCHANGED created
    /\ UNCHANGED <<iterators, _declared>>
    /\ UNCHANGED <<attVars, tblVars, topVars, drvVars>>

NextDeclare ==
    \/ Topic_aiter
    \/ \E o \in TopicObjects : Topic_maybe_declare(o)
    \/ \E i \in 1..MaxDeclares : Topic_declare_producer_started(i)
    \/ \E i \in 1..MaxDeclares, ok \in BOOLEAN : Topic_declare_created(i, ok)

Init == AttachmentsInit /\ TableManagerInit /\ TopicManagerInit /\ TopicInit /\ DeclareInit

\* The initial states of the specification of Topic.derive.
InitDerive ==
    AttachmentsInit /\ TableManagerInit /\ TopicManagerInit /\ TopicDeriveInit /\ DeclareInit

\* The initial states of the specification of Topic.maybe_declare.
InitDeclare ==
    AttachmentsInit /\ TableManagerInit /\ TopicManagerInit /\ TopicDeclareInit /\ DeclareInit

Next ==
    NextAttachments \/ NextMaybePut \/ NextTables \/ NextTopics \/ NextDerive \/ NextDeclare

SpecAttachments == Init /\ [][NextAttachments]_vars

\* The producer answers every send and the event loop resumes the commit
\* coroutine that awaits it: a pending publish step is eventually taken.
SpecAttachmentsFair ==
    /\ SpecAttachments
    /\ WF_vars(\E i \in 1..MaxCommits, ok \in BOOLEAN : Attachments_commit_publish(i, ok))

SpecMaybePut == Init /\ [][NextMaybePut]_vars

SpecTables == Init /\ [][NextTables]_vars

SpecTopics == Init /\ [][NextTopics]_vars

\* The channel whose queue may stay full: a delivery to it may stay blocked.
SlowChannel == "c1"

\* The event loop runs every task that can run: the gatherer takes a unit
\* when the queue has one and goes on when its wait returns, and a delivery
\* to a channel whose queue accepts the message ends (received or raised).
\* Nothing makes a delivery to SlowChannel end.
SpecTopicsFair ==
    /\ SpecTopics
    /\ WF_vars(_gatherer_get)
    /\ WF_vars(_gatherer_wait_returns)
    /\ WF_vars(\E unit \in Units, ok \in BOOLEAN :
                  unit[2] # SlowChannel /\ Channel_deliver(unit, ok))

SpecDerive == InitDerive /\ [][NextDerive]_vars

SpecDeclare == InitDeclare /\ [][NextDeclare]_vars

Spec == Init /\ [][Next]_vars

(***************************************************************************)
(* Properties of Attachments                                               *)
(***************************************************************************)
\* The <<tp, offset>> keys commit has been invoked for.
CommitInvoked == {<<commits[i].tp, commits[i].offset>> : i \in 1..Len(commits)}

InBuffer(f) == \E tp \in SourceTPs : f \in PendingFor(tp)

\* C1: a FutureMessage that put enqueued at (tp, off) has been handed to
\* publish_message only if commit(tp, off) has been invoked; a commit of
\* another offset or another TP does not publish it.
C1_PublishedOnlyAfterItsCommit ==
    \A f \in FmIds : handed[f] > 0 => fmSource[f] \in CommitInvoked

\* A commit has published one FutureMessage while another one, enqueued at a
\* different key, is still in the buffer, unpublished.
C1_Witness ==
    \E f \in FmIds, g \in FmIds :
        /\ handed[f] = 1
        /\ fmSource[g] # <<>> /\ fmSource[g] # fmSource[f]
        /\ CommitInvoked = {fmSource[f]}
        /\ InBuffer(g) /\ handed[g] = 0

\* C2: every FutureMessage is handed to publish_message at most once, also
\* when two commits of the same key overlap and when partitions are revoked.
C2_PublishedAtMostOnce == \A f \in FmIds : handed[f] <= 1

\* A second commit of the same key was invoked (and returned at once, having
\* found nothing) while the first one is suspended in its publishes.
C2_Witness ==
    /\ Len(commits) = 2
    /\ commits[1].pc = "publish" /\ Len(commits[1].attached) = 2
    /\ commits[2].tp = commits[1].tp /\ commits[2].offset = commits[1].offset
    /\ commits[2].pc = "returned" /\ commits[2].attached = <<>>
    /\ handed[commits[1].attached[1]] = 1

\* C3: the attachments pending for a TP when it is revoked are dropped: they
\* are no longer in the buffer and no later commit publishes them.
C3_RevokedAttachmentsDropped ==
    \A f \in revokedPending : ~InBuffer(f) /\ handed[f] = 0

(***************************************************************************)
(* Properties of TableManager                                              *)
(***************************************************************************)
RevokeReturned == hdl.pc = "idle" /\ rebalance.last = "revoked"

AllReviversStopped ==
    \A i \in 1..Len(_revivers.list) : _revivers.list[i].st = "stopped"

\* C4: once on_partitions_revoked has been invoked while the recovery task of
\* the current assignment is in flight, that recovery starts no standby, does
\* not set the recovery-completed latch and resumes no partition; when the
\* revoke has returned the task has ended and every reviver is stopped.
C4_RevokeAbortsRecovery ==
    cycleLog.abort =>
        /\ cycleLog.afterAbort = {}
        /\ RevokeReturned => (rec.pc = "done" /\ AllReviversStopped)

\* C9: _table_offsets[tp] never decreases, and it is the maximum of the
\* persisted offsets and of the non-negative reader offsets folded so far
\* (absent, written -1, when there was none).
C9_TableOffsetsAreMonotoneMax ==
    /\ [](_table_offsets = observed)
    /\ [][\A tp \in AllTPs : _table_offsets'[tp] >= _table_offsets[tp]]_vars

\* The revivers' offsets have just been folded, and one of them was below
\* the table offset of its tp, which kept its value.
C9_Witness ==
    /\ rec.pc = "stop" /\ rec.idx = 1
    /\ \E i \in 1..Len(_revivers.list) :
          \E tp \in DOMAIN _revivers.list[i].offsets :
             /\ _revivers.list[i].offsets[tp] >= 0
             /\ _revivers.list[i].offsets[tp] < _table_offsets[tp]
    /\ \E i \in 1..Len(_revivers.list) :
          \E tp \in DOMAIN _revivers.list[i].offsets :
             _revivers.list[i].offsets[tp] = -1

\* The TPs of `assigned` whose topic is not the changelog topic of a table.
NonChangelogTps(assigned) ==
    {tp \in assigned :
        ~\E t \in RegisteredTables : TopicOf(tp) = ChangelogTopicName(t)}

\* C10: in a cycle whose recovery set the recovery-completed latch every
\* reviver is stopped, and when the task has ended the reviver list is gone
\* and resume_partitions was called with the non-changelog TPs of `assigned`.
C10_SuccessfulRecoveryEnds ==
    cycleLog.completed =>
        /\ AllReviversStopped
        /\ cycleLog.resumed = NonChangelogTps(rec.assigned)
        /\ rec.pc = "done" => _revivers.is_none

\* A recovery of two tables ended with the latch set, having resumed some
\* but not all of the assigned TPs.
C10_Witness ==
    /\ cycleLog.completed /\ rec.pc = "done"
    /\ Len(data) = 2
    /\ rec.actives # {}
    /\ cycleLog.resumed # {} /\ cycleLog.resumed # rec.assigned

\* Commit i has returned, or ended with an error.
CommitEnded(i) ==
    IF i <= Len(commits) THEN commits[i].pc \in {"returned", "raised"} ELSE FALSE

\* C17: in the step that invokes commit(tp, off) the whole list of
\* buffer[tp][off] is removed, before the first publish of that commit is
\* answered; only a put makes a key of the buffer present again, so the key
\* is absent when the commit returns unless a put was made since; and no
\* FutureMessage handed to publish_message is in the buffer.
C17_CommitLeavesKeyAbsent ==
    /\ [][Len(commits') = Len(commits) + 1 =>
             LET c == commits'[Len(commits')] IN _pending'[c.tp][c.offset] = <<>>]_vars
    /\ [][\A tp \in SourceTPs, o \in SrcOffsets :
             (_pending'[tp][o] # _pending[tp][o] /\ _pending'[tp][o] # <<>>) =>
                 /\ nextFm' = nextFm + 1
                 /\ _pending'[tp][o] = Append(_pending[tp][o], nextFm)]_vars
    /\ [](\A f \in FmIds : handed[f] > 0 => ~InBuffer(f))

\* C17 witness: a commit removed a list of two FutureMessages and published
\* them; a second commit of the same key found nothing and returned, and the
\* key is absent.
C17_Witness ==
    /\ Len(commits) = 2
    /\ commits[1].tp = commits[2].tp /\ commits[1].offset = commits[2].offset
    /\ Len(commits[1].attached) = 2 /\ commits[1].pc = "wait"
    /\ commits[2].pc = "returned"
    /\ _pending[commits[2].tp][commits[2].offset] = <<>>

\* The FutureMessages the commits of key <<tp, offset>> popped.
AttachedBy(key) ==
    UNION {SeqToSet(commits[i].attached) :
             i \in {j \in 1..Len(commits) : <<commits[j].tp, commits[j].offset>> = key}}

\* C18: the message of the last maybe_put call, when the call was made with
\* force = false while a current event was in scope, was enqueued at the
\* event's (tp, offset) and not sent: it is in the buffer at that key until a
\* commit of that key pops it, and only such a commit publishes it.  Any
\* other call (force = true, or no current event) sent its message and put
\* nothing: the step of the call changes neither the buffer nor what the
\* commits publish.
C18_MaybePutAttachesOrSends ==
    /\ [](LET c == lastMaybePut IN
            c.called =>
              IF ~c.force /\ c.event # NoEvent
                THEN /\ ~c.sent
                     /\ c.fm # 0 /\ fmSource[c.fm] = c.event
                     /\ \/ c.fm \in SeqToSet(_pending[c.event[1]][c.event[2]])
                        \/ c.fm \in AttachedBy(c.event)
                     /\ handed[c.fm] > 0 => c.fm \in AttachedBy(c.event)
                ELSE c.sent /\ c.fm = 0)
    /\ [][lastMaybePut'.sent /\ lastMaybePut' # lastMaybePut =>
             /\ _pending' = _pending
             /\ handed' = handed
             /\ commits' = commits]_vars

\* C18 witness: the first message was attached to the current event and is
\* still in the buffer at the event's key, after a commit of another key;
\* the last call, made with force = true under the same event, sent its
\* message.
C18_Witness ==
    /\ lastMaybePut.called /\ lastMaybePut.force /\ lastMaybePut.sent
    /\ lastMaybePut.event # NoEvent
    /\ fmSource[1] = lastMaybePut.event
    /\ _pending[lastMaybePut.event[1]][lastMaybePut.event[2]] = <<1>>
    /\ commits # <<>>

\* C18 witness of the attached case: maybe_put with force = false under an
\* event enqueued the message, and the commit of the event's offset has
\* handed it to publish_message.
C18_WitnessAttached ==
    /\ lastMaybePut.called /\ ~lastMaybePut.force /\ lastMaybePut.event # NoEvent
    /\ handed[lastMaybePut.fm] = 1

\* C23: a commit that is no longer publishing has handed every FutureMessage
\* of the list it removed to publish_message, also when one of its publishes
\* failed: no FutureMessage is out of the buffer and unpublished with no
\* commit left to publish it.
C23_CommitPublishesWholeList ==
    \A i \in 1..Len(commits) :
        commits[i].pc # "publish" =>
            \A f \in SeqToSet(commits[i].attached) : handed[f] > 0 \/ InBuffer(f)

\* The changelog TPs of the registered tables.
RegisteredChangelogTps ==
    {tp \in AllTPs : \E t \in RegisteredTables : TopicOf(tp) = ChangelogTopicName(t)}

\* The recovery task is between its update of the channels and its end.
RecoveryUpdatedChannels == rec.pc \in RaisingAwaits \cup {"callbacks"}

\* C16: from the step in which the recovery task updates its channels until
\* it ends, every changelog TP of the consumer's assignment is paused; and
\* the resume_partitions call of the table manager holds no changelog TP.
C16_ChangelogTpsStayPaused ==
    /\ RecoveryUpdatedChannels =>
           (consumer.assignment \cap RegisteredChangelogTps) \subseteq consumer.paused
    /\ cycleLog.resumed \cap RegisteredChangelogTps = {}

\* C16 witness: the recovery of two tables has called resume_partitions; the
\* two changelog TPs of the assignment are paused and the source TP is not.
C16_Witness ==
    /\ rec.pc = "resume"
    /\ consumer.assignment = AllTPs
    /\ RegisteredChangelogTps = {<<"t1-changelog", 0>>, <<"t2-changelog", 0>>}
    /\ consumer.paused = RegisteredChangelogTps
    /\ cycleLog.resumed = {<<"orders", 0>>}

\* C14: every commit(tp, off) that has been invoked eventually returns (or
\* ends with the error of a send the producer refused): with a producer that
\* accepts every send, the FutureMessages it published get resolved and the
\* asyncio.wait on them ends.
C14_CommitEventuallyReturns ==
    \A i \in 1..MaxCommits :
        [](i <= Len(commits) => <>CommitEnded(i))

\* C11: whenever on_partitions_assigned is invoked (the on_partitions_revoked
\* before it has returned), no recovery task is in flight and the reviver
\* list is empty (None, or a list of no reviver), however the previous
\* recovery ended; a single recovery task runs at a time.
C11_AssignedFindsNoRecovery ==
    [][rebalance'.cycles > rebalance.cycles =>
          /\ rebalance.last = "revoked" => hdl.pc = "idle"
          /\ _ongoing_recovery = None
          /\ _revivers.list = <<>>]_vars

\* The positions of _recover inside its success branch (lines 241-255).
SuccessBranch == {"callbacks", "seek", "standby", "maybe_start", "resume"}

\* C12: when, at the moment every reviver has finished reading, a reviver
\* reports recovered() = False or the manager is stopped, the recovery cycle
\* never enters its success branch: no recover callback, no standby, no
\* recovery-completed latch, no resume_partitions; and while the task waits
\* for the readers, a reviver that failed leaves the others reading (none is
\* stopped unless a revoke or a stop asked for it).
C12_InterruptedRecoveryDoesNothing ==
    /\ cycleLog.interrupted =>
           /\ rec.pc \notin SuccessBranch
           /\ ~cycleLog.completed
           /\ cycleLog.resumed = {}
           /\ DOMAIN _standbys = {}
    /\ (rec.pc = "reading" /\ ~cycleLog.abort /\ ~_stopped) =>
           \A i \in 1..Len(_revivers.list) : _revivers.list[i].st # "stopped"

\* C12 witness: of two revivers one failed and the other recovered; both
\* were read to the end and stopped by the recovery task, which ended
\* without a revoke or a stop.
C12_Witness ==
    /\ cycleLog.interrupted /\ ~cycleLog.abort /\ ~_stopped
    /\ rec.pc = "stop" /\ rec.idx = 2
    /\ Len(_revivers.list) = 2
    /\ _revivers.list[1].recovered /\ ~_revivers.list[2].recovered
    /\ _revivers.list[1].st = "stopped" /\ _revivers.list[2].st = "done"

\* C13 (as amended): once the recovery task has taken its first step (it sets
\* the _recovery_started latch), every add(table) fails with AddTooLate and
\* the set of registered tables never changes again; an add made before
\* that step, also after on_partitions_assigned was called, is not refused
\* for being late.
C13_AddAfterRecoveryStartedFails ==
    /\ [](lateAdd = "AddTooLate" => _recovery_started)
    /\ [][_recovery_started => /\ data' = data
                               /\ lateAdd' # lateAdd => lateAdd' = "AddTooLate"]_vars

\* C13 witness: add was refused with AddTooLate while the recovery of the one
\* registered table was in flight.
C13_Witness ==
    /\ lateAdd = "AddTooLate"
    /\ Len(data) = 1
    /\ RecoveryInFlight /\ rec.pc = "reading"

\* C13 (as stated): no add(table) invoked after on_partitions_assigned was
\* called succeeds.
C13_AddAfterAssignedFails == lateAdd # "added"

(***************************************************************************)
(* Properties of TopicManager                                              *)
(***************************************************************************)
\* The channels a delivery unit of message m has been enqueued for.
Enqueued(m) == {c \in Channels : delivery[<<m, c>>] # "none"}

OnMessageFinished(m) == msgs[m].pc \in {"returned", "raised"}

\* The channels the topic map, as last computed, holds for a topic name.
MappedFor(topic) == {c \in MappedChannels : ChannelTopic(c) = topic}

\* The channels of the subscriber set that name a topic.
SubscribersFor(topic) == {c \in _topics : ChannelTopic(c) = topic}

\* Every unit on the queue is there once, and is exactly a unit not yet started.
UnitsQueuedOnce ==
    /\ \A i, j \in 1..Len(_pending_tasks) :
           i # j => _pending_tasks[i] # _pending_tasks[j]
    /\ \A unit \in Units :
           delivery[unit] = "queued" <=> unit \in SeqToSet(_pending_tasks)

\* The units of every message are those of the channels on_message looked up.
UnitsFollowLookup ==
    \A m \in 1..Len(msgs) :
        /\ Enqueued(m) \subseteq msgs[m].channels
        /\ OnMessageFinished(m) => Enqueued(m) = msgs[m].channels

\* C5 (as amended): for every message handed to on_message, exactly one
\* delivery unit is enqueued for each channel that the topic map, as last
\* computed by _update_topicmap, holds under the message's topic, and none for
\* any other channel; a channel added or discarded since that computation is
\* not taken into account.
C5_OneUnitPerMappedChannel ==
    /\ [](UnitsQueuedOnce /\ UnitsFollowLookup)
    /\ [][Len(msgs') > Len(msgs) =>
            msgs'[Len(msgs')].channels = MappedFor(msgs'[Len(msgs')].topic)]_vars

\* C5 witness: on_message returned after enqueueing its one unit for c1, the
\* only channel of the map under "X", while c2, added since the map was
\* computed and not yet subscribed for, also names "X".
C5_Witness ==
    /\ msgs # <<>>
    /\ msgs[1].pc = "returned"
    /\ msgs[1].topic = "X"
    /\ Enqueued(1) = {"c1"}
    /\ MappedFor("X") = {"c1"}
    /\ SubscribersFor("X") = {"c1", "c2"}

\* C5 (as stated): for every message handed to on_message, exactly one
\* delivery unit is enqueued for each channel that is in the subscriber set
\* at that moment and names the message's topic, and none for a discarded
\* channel.
C5_OneUnitPerSubscriber ==
    /\ [](UnitsQueuedOnce /\ UnitsFollowLookup)
    /\ [][Len(msgs') > Len(msgs) =>
            msgs'[Len(msgs')].channels = SubscribersFor(msgs'[Len(msgs')].topic)]_vars

\* The channels that released their reference to message m.
Released(m) == {c \in Channels : delivery[<<m, c>>] = "acked"}

\* C6: the reference count of a message with K subscribing channels is K
\* from the step on_message looks the channels up (less one per channel that
\* released it), so it is above 0 while a subscribing channel has not yet
\* received the message.
C6_RefcountHeldUntilReceived ==
    \A m \in 1..Len(msgs) :
        /\ msgs[m].refcount = Cardinality(msgs[m].channels) - Cardinality(Released(m))
        /\ (\E c \in msgs[m].channels : delivery[<<m, c>>] \notin {"received", "acked"})
               => msgs[m].refcount > 0

\* C6 witness: a message with two subscribing channels; one has released its
\* reference, the delivery to the other has not begun.
C6_Witness ==
    \E m \in 1..Len(msgs) :
        /\ msgs[m].channels = {"c1", "c2"}
        /\ \E c \in msgs[m].channels :
               /\ delivery[<<m, c>>] = "acked"
               /\ \E d \in msgs[m].channels \ {c} : delivery[<<m, d>>] \in {"none", "queued"}
        /\ msgs[m].refcount = 1

\* C7: no consumer.subscribe call is made while the subscriber task sleeps
\* through the grace period, and the first call, made when the sleep returns,
\* holds the topic name of every channel registered at that moment.
C7_FirstSubscribeAfterGrace ==
    /\ [](subscriber.pc = "sleep" => subscribeCalls = <<>>)
    /\ [][subscribeCalls = <<>> /\ subscribeCalls' # <<>> =>
            /\ subscriber.pc = "sleep"
            /\ subscribeCalls' = <<{ChannelTopic(c) : c \in _topics}>>]_vars

\* C7 witness: two channels of different topics were added during the grace
\* period, and the first subscribe call is out with both topic names.
C7_Witness ==
    /\ subscriber.pc = "subscribe_first"
    /\ changes = 2
    /\ subscribeCalls = <<{"X", "Y"}>>

\* C8: no subscription change is lost: the subscriber task never waits on a
\* clear "subscription changed" signal while the subscriber set differs from
\* the set its last consumer.subscribe call was computed from (from such a
\* state no subscribe call follows the change).
C8_NoSubscriptionChangeLost ==
    (subscriber.pc = "wait" /\ _subscription_changed = "clear")
        => MappedChannels = _topics

\* C15: a channel receives the messages of one topic-partition in the order
\* the broker handed them to on_message: when it has received M2, the
\* delivery of every earlier message M1 of the same topic-partition that was
\* enqueued for it has ended (the model's messages of one topic are of one
\* partition).
C15_ChannelReceivesInBrokerOrder ==
    \A m1, m2 \in 1..Len(msgs) : \A c \in Channels :
        (/\ m1 < m2
         /\ msgs[m1].topic = msgs[m2].topic
         /\ c \in msgs[m1].channels \cap msgs[m2].channels
         /\ delivery[<<m2, c>>] \in {"received", "acked"})
            => delivery[<<m1, c>>] \in {"received", "acked", "raised"}

\* C15 witness: two messages of topic "X" went to the channels c1 and c2, and
\* c1 has received both while c2 has received the first only.
C15_Witness ==
    /\ Len(msgs) = 2
    /\ msgs[1].topic = "X" /\ msgs[2].topic = "X"
    /\ msgs[1].channels = {"c1", "c2"} /\ msgs[2].channels = {"c1", "c2"}
    /\ delivery[<<1, "c1">>] = "received" /\ delivery[<<2, "c1">>] = "received"
    /\ delivery[<<1, "c2">>] = "received" /\ delivery[<<2, "c2">>] = "queued"


\* C22: the step that sets the recovery-completed latch of a cycle is taken
\* after perform_seek returned and after the standbys were started, when every
\* reviver has read to its end and is stopped, and no resume_partitions call
\* of the cycle was made before it; resume_partitions is awaited only with
\* the latch set.
C22_LatchAfterReadingBeforeResume ==
    /\ [][(~cycleLog.completed /\ cycleLog'.completed) =>
            /\ recovery_completed'
            /\ rec.pc \in {"seek", "standby", "maybe_start"}
            /\ \A i \in 1..Len(_revivers.list) :
                  _revivers.list[i].st = "stopped" /\ _revivers.list[i].recovered
            /\ \A t \in DOMAIN _standbys' : _standbys'[t].st # "created"
            /\ cycleLog.resumed = {}]_vars
    /\ []((rec.pc = "resume" \/ cycleLog.resumed # {}) =>
             (cycleLog.completed /\ recovery_completed))

\* C22 witness: a recovery with a reviver and a standby has set the latch and
\* awaits resume_partitions for a non-changelog TP.
C22_Witness ==
    /\ rec.pc = "resume" /\ cycleLog.completed /\ recovery_completed
    /\ Len(_revivers.list) >= 1
    /\ \E i \in 1..Len(_revivers.list) : _revivers.list[i].tps # {}
    /\ DOMAIN _standbys # {}
    /\ cycleLog.resumed # {}

\* C25: whenever the recovery-completed latch is set, the recovery of the
\* most recent on_partitions_assigned has set it.
C25_LatchReflectsCurrentCycle == recovery_completed => cycleLog.completed

\* C24: a delivery unit queued for a channel other than the one whose
\* delivery may stay blocked is eventually started by the gatherer and ends
\* (the channel received the message, or the delivery raised).
C24_BlockedDeliveryStopsNoOther ==
    \A unit \in Units :
        [](unit[2] # SlowChannel /\ delivery[unit] = "queued"
              => <>(delivery[unit] \in {"received", "raised", "acked"}))

\* The number of consumer.subscribe calls that have returned.
CompletedSubscribes ==
    IF subscriber.pc \in {"subscribe_first", "subscribe"}
      THEN Len(subscribeCalls) - 1 ELSE Len(subscribeCalls)

\* C26: after an add or a discard, wait_for_subscriptions returns only when
\* the last consumer.subscribe call that has returned was made with the topic
\* names of the subscriber set as it is now.
C26_WaitReturnsAfterSubscribe ==
    (changes > 0 /\ wait_for_subscriptions_returns) =>
        /\ CompletedSubscribes > 0
        /\ subscribeCalls[CompletedSubscribes] = {ChannelTopic(c) : c \in _topics}

\* C27: an on_message whose lookup found no channel returns without error,
\* holds no reference and has enqueued no delivery unit.
C27_NoChannelCompletes ==
    \A m \in 1..Len(msgs) :
        msgs[m].channels = {} =>
            /\ msgs[m].pc = "returned"
            /\ msgs[m].refcount = 0
            /\ \A c \in Channels : delivery[<<m, c>>] = "none"

(***************************************************************************)
(* Properties of Topic                                                     *)
(***************************************************************************)
\* C19: derive(prefix=p, suffix=s), called with nothing else on a Topic
\* defined by a list of names, returns a Topic whose names are p + name + s
\* for each name of the original, in the same order, and whose partition
\* count is the original's.
C19_DerivePrefixesNames ==
    LET c == deriveLog IN
      (/\ c.n > 0 /\ c.error = None
       /\ TopicsTruthy(c.self.topics)
       /\ c.kw = [NoOverrides EXCEPT !.prefix = c.kw.prefix, !.suffix = c.kw.suffix])
      => /\ derived.topics = Names(Prefixed(c.kw.prefix, c.self.topics.list, c.kw.suffix))
         /\ derived.partitions = c.self.partitions

\* C20: after one or two calls of derive() without arguments the Topic has
\* the configuration of the original in every attribute.
C20_DeriveKeepsConfiguration ==
    (deriveLog.n > 0 /\ deriveLog.plain) => _clone_args(derived) = _clone_args(origin)


\* C21: when maybe_declare has been called and every call has returned (none
\* ended with an error), exactly one create_topic was issued for each topic
\* name of the Topic.
C21_OneCreateTopicPerName ==
    (/\ declares # <<>>
     /\ \A i \in 1..Len(declares) : declares[i].pc = "returned")
    => \A name \in SeqToSet(origin.topics.list) : created[name] = 1

=============================================================================
